---------------------------- MODULE Spec2Model ----------------------------
(***************************************************************************)
(* A model of the Collect capability protocol (gc-arena/src/collect_impl.rs,*)
(* gc-arena/src/static_collect.rs) and of the one-shot stepped computations *)
(* SequenceFn / SequenceFnWith (gc-sequence/src/sequence_fn.rs).            *)
(*                                                                         *)
(* Three specifications share the module:                                   *)
(*   SpecTypes  instantiates the generic impls and asks needs_trace();      *)
(*   SpecTrace  builds values, mutates cells and lets the collector trace;  *)
(*   SpecSeq    constructs, steps, traces and abandons a stepped            *)
(*              computation.                                                *)
(***************************************************************************)
EXTENDS Integers, Sequences, FiniteSets, TLC

VARIABLES
    ty,        \* SpecTypes: the type currently instantiated
    nt,        \* SpecTypes: what the last needs_trace() call answered, or "unasked"
    root,      \* SpecTrace: the value the collector holds as a root
    log,       \* SpecTrace/SpecSeq: the trace calls made by the last collector trace
    traced,    \* SpecTrace/SpecSeq: what the last trace was given, or NoTrace:
               \*   v, cc: the value traced and the capability given;
               \*   n: under SpecTrace, 1 when the value was written to since the
               \*      trace before; under SpecSeq, the step calls made before;
               \*   prev: under SpecSeq, what the trace before was of
    seq,       \* SpecSeq: the stepped computation instance
    ret,       \* SpecSeq: what the last step call returned (or that it panicked)
    calls,     \* SpecSeq: the invocations of the held action so far
    outputs,   \* SpecSeq: the outputs produced so far
    steps,     \* SpecSeq: the number of step calls so far
    lhs,       \* SpecStatic: a StaticCollect-wrapped value
    rhs,       \* SpecStatic: another one of the same type
    cmp,       \* SpecStatic: what the last lhs == rhs answered, or <<>>
    cloned     \* SpecStatic: whether rhs was made by lhs.clone()

vars ==
    <<ty, nt, root, log, traced, seq, ret, calls, outputs, steps, lhs, rhs, cmp, cloned>>

typeVars == <<ty, nt>>
traceVars == <<root>>
seqVars == <<seq, ret, calls, outputs, steps>>
logVars == <<log, traced>>
staticVars == <<lhs, rhs, cmp, cloned>>

-----------------------------------------------------------------------------
(* Bounds of the model. *)

\* how many generic constructors are nested around a leaf type in SpecTypes
MaxDepth == 2
\* the longest tuple instantiated in SpecTypes (the impls go up to TupleMax)
MaxArity == 2

\* impl_array_collect!(1) .. impl_array_collect!(32)
ArrayMax == 32
\* impl_tuple! {} .. impl_tuple! {A B C D E F G H I J K L M N O P}
TupleMax == 16

-----------------------------------------------------------------------------
(* Types.  A type is a record [k, a, n]: the constructor, its type         *)
(* arguments and, for an array, its length.                                *)

T0(k) == [k |-> k, a |-> <<>>, n |-> 0]
T1(k, t) == [k |-> k, a |-> <<t>>, n |-> 0]
T2(k, t, u) == [k |-> k, a |-> <<t, u>>, n |-> 0]
TArray(t, n) == [k |-> "Array", a |-> <<t>>, n |-> n]
TTuple(ts) == [k |-> "Tuple", a |-> ts, n |-> 0]

\* static_collect!(bool) .. static_collect!(String)
StaticLeaves ==
    {"bool", "u8", "u16", "u32", "u64", "usize", "i8", "i16", "i32", "i64",
     "isize", "f32", "f64", "String"}

\* &'a T and &'a mut T
RefLeaves == {"Ref", "RefMut"}

\* Gc<'gc, T>, the managed reference handed out by the arena
GcLeaf == "Gc"

LeafKinds == StaticLeaves \cup RefLeaves \cup {GcLeaf}

U32 == T0("u32")
GcT == T0(GcLeaf)

RECURSIVE Depth(_)
Depth(t) ==
    IF t.a = <<>> THEN 0
    ELSE 1 + (CHOOSE d \in {Depth(t.a[i]) : i \in 1..Len(t.a)} :
                \A i \in 1..Len(t.a) : Depth(t.a[i]) <= d)

\* T: 'static -- no arena lifetime and no borrowed lifetime anywhere in T
RECURSIVE IsStatic(_)
IsStatic(t) ==
    /\ t.k \notin RefLeaves \cup {GcLeaf}
    /\ \A i \in 1..Len(t.a) : IsStatic(t.a[i])

\* K: Eq + Hash / Eq + Ord -- the types usable as a set element or a map key
RECURSIVE IsKey(_)
IsKey(t) ==
    /\ t.k \notin {"f32", "f64", "Cell", "RefCell", "HashMap", "HashSet",
                   "StaticCollect", GcLeaf}
    /\ \A i \in 1..Len(t.a) : IsKey(t.a[i])


-----------------------------------------------------------------------------
(* needs_trace(), one operator per impl.  The parameters are the answers   *)
(* of the impl's type parameters.                                          *)

\* trait Collect: the provided needs_trace(), used by every impl that does
\* not define its own
CollectDefaultNeedsTrace == TRUE

\* Gc<'gc, T>
GcNeedsTrace == TRUE

\* static_collect!($type) / unsafe_empty_collect!($type)
StaticLeafNeedsTrace == FALSE

\* &'a T, &'a mut T
RefNeedsTrace == FALSE

BoxNeedsTraceDelegating(t) == t
\* impl Collect for Box<T>: only trace is defined
BoxNeedsTrace(t) == CollectDefaultNeedsTrace

\* impl Collect for Box<[T]>
BoxSliceNeedsTrace(t) == t

\* impl Collect for Option<T>
OptionNeedsTrace(t) == t

ResultNeedsTraceOkOnly(t, e) == t
\* impl Collect for Result<T, E>
ResultNeedsTrace(t, e) == t \/ e

\* impl Collect for Vec<T>
VecNeedsTrace(t) == t

\* impl Collect for HashMap<K, V, S>
HashMapNeedsTrace(k, v) == k \/ v

\* impl Collect for HashSet<T, S>
HashSetNeedsTrace(t) == t

\* impl Collect for BTreeMap<K, V>
BTreeMapNeedsTrace(k, v) == k \/ v

\* impl Collect for BTreeSet<T>
BTreeSetNeedsTrace(t) == t

\* impl Collect for Rc<T>: only trace is defined
RcNeedsTrace(t) == CollectDefaultNeedsTrace

\* impl Collect for Arc<T>: only trace is defined
ArcNeedsTrace(t) == CollectDefaultNeedsTrace

\* impl Collect for Cell<T> where T: 'static
CellNeedsTrace(t) == FALSE

\* impl Collect for RefCell<T> where T: 'static
RefCellNeedsTrace(t) == FALSE

\* impl_array_collect!($sz)
ArrayNeedsTrace(t) == t

\* impl_tuple!: () is false, (A, B, ..) is A::needs_trace() || B::.. || false
RECURSIVE TupleNeedsTrace(_)
TupleNeedsTrace(ps) ==
    IF ps = <<>> THEN FALSE ELSE Head(ps) \/ TupleNeedsTrace(Tail(ps))

\* impl Collect for StaticCollect<T> where T: 'static
StaticCollectNeedsTrace(t) == FALSE

\* T::needs_trace(), resolved to the impl of T's outermost constructor
RECURSIVE NeedsTrace(_)
NeedsTrace(t) ==
    LET p(i) == NeedsTrace(t.a[i]) IN
    CASE t.k \in StaticLeaves -> StaticLeafNeedsTrace
      [] t.k \in RefLeaves -> RefNeedsTrace
      [] t.k = GcLeaf -> GcNeedsTrace
      [] t.k = "Box" -> BoxNeedsTrace(p(1))
      [] t.k = "BoxSlice" -> BoxSliceNeedsTrace(p(1))
      [] t.k = "Option" -> OptionNeedsTrace(p(1))
      [] t.k = "Result" -> ResultNeedsTrace(p(1), p(2))
      [] t.k = "Vec" -> VecNeedsTrace(p(1))
      [] t.k = "HashMap" -> HashMapNeedsTrace(p(1), p(2))
      [] t.k = "HashSet" -> HashSetNeedsTrace(p(1))
      [] t.k = "BTreeMap" -> BTreeMapNeedsTrace(p(1), p(2))
      [] t.k = "BTreeSet" -> BTreeSetNeedsTrace(p(1))
      [] t.k = "Rc" -> RcNeedsTrace(p(1))
      [] t.k = "Arc" -> ArcNeedsTrace(p(1))
      [] t.k = "Cell" -> CellNeedsTrace(p(1))
      [] t.k = "RefCell" -> RefCellNeedsTrace(p(1))
      [] t.k = "Array" -> ArrayNeedsTrace(p(1))
      [] t.k = "Tuple" -> TupleNeedsTrace([i \in 1..Len(t.a) |-> p(i)])
      [] t.k = "StaticCollect" -> StaticCollectNeedsTrace(p(1))

-----------------------------------------------------------------------------
(* Values.  A value is a node [k, t, c, p]: its variant (the constructor,  *)
(* or Some/None, Ok/Err), its type, its directly owned children in the     *)
(* order the container iterates them, and a payload (the number held by a  *)
(* plain leaf, the address of a Gc pointer, the allocation an Rc or Arc    *)
(* handle points to, the code of a closure).                               *)

\* the longest sequence, set or map built
MaxLen == 2
\* distinct payloads of a plain leaf: 0 .. NumPlain - 1
NumPlain == 2
\* distinct Gc pointers: 1 .. NumGc
NumGc == 2
\* distinct Rc / Arc allocations: 1 .. NumRc
NumRc == 2
\* distinct capability tokens (CollectionContext, MutationContext): 1 .. NumCtx
NumCtx == 2

Node(k, t, c, p) == [k |-> k, t |-> t, c |-> c, p |-> p]

\* a closure type F: 'static + FnOnce(..) -> R; it does not implement Collect
ClosureT == T0("Closure")

\* the closures held by the stepped computations of SpecSeq
Closures == {"double", "succ", "id"}
ClosureCode(f) == CASE f = "double" -> 1 [] f = "succ" -> 2 [] f = "id" -> 3
CodeClosure(n) == CHOOSE f \in Closures : ClosureCode(f) = n

SeqsUpTo(S, n) == UNION {[1..m -> S] : m \in 0..n}

\* the order of Ord on the key values built here: u32 and Box<u32>
RECURSIVE KeyRank(_)
KeyRank(v) == IF v.c = <<>> THEN v.p ELSE KeyRank(v.c[1])

Distinct(s) == \A i, j \in 1..Len(s) : i # j => s[i] # s[j]
Sorted(s) == \A i, j \in 1..Len(s) : i < j => KeyRank(s[i]) < KeyRank(s[j])

EntryT(t) == [k |-> "Entry", a |-> t.a, n |-> 0]

\* the values of type t within the bounds
RECURSIVE ValuesOf(_)
ValuesOf(t) ==
    LET V(i) == ValuesOf(t.a[i])
        Entries == {Node("Entry", EntryT(t), <<x, y>>, 0) : x \in V(1), y \in V(2)}
        EntryKeys(s) == [i \in 1..Len(s) |-> s[i].c[1]]
    IN
    CASE t.k \in StaticLeaves \cup RefLeaves ->
            {Node(t.k, t, <<>>, n) : n \in 0..(NumPlain - 1)}
      [] t.k = GcLeaf -> {Node(t.k, t, <<>>, n) : n \in 1..NumGc}
      [] t.k = "Closure" -> {Node(t.k, t, <<>>, ClosureCode(f)) : f \in Closures}
      [] t.k \in {"Box", "Cell", "RefCell", "StaticCollect"} ->
            {Node(t.k, t, <<x>>, 0) : x \in V(1)}
      [] t.k \in {"Rc", "Arc"} ->
            {Node(t.k, t, <<x>>, n) : x \in V(1), n \in 1..NumRc}
      [] t.k = "Option" ->
            {Node("None", t, <<>>, 0)} \cup {Node("Some", t, <<x>>, 0) : x \in V(1)}
      [] t.k = "Result" ->
            {Node("Ok", t, <<x>>, 0) : x \in V(1)}
                \cup {Node("Err", t, <<y>>, 0) : y \in V(2)}
      [] t.k \in {"Vec", "BoxSlice"} ->
            {Node(t.k, t, s, 0) : s \in SeqsUpTo(V(1), MaxLen)}
      [] t.k = "Array" -> {Node(t.k, t, s, 0) : s \in [1..t.n -> V(1)]}
      [] t.k = "HashSet" ->
            {Node(t.k, t, s, 0) : s \in {x \in SeqsUpTo(V(1), MaxLen) : Distinct(x)}}
      [] t.k = "BTreeSet" ->
            {Node(t.k, t, s, 0) : s \in {x \in SeqsUpTo(V(1), MaxLen) : Sorted(x)}}
      [] t.k = "HashMap" ->
            {Node(t.k, t, s, 0) :
                s \in {x \in SeqsUpTo(Entries, MaxLen) : Distinct(EntryKeys(x))}}
      [] t.k = "BTreeMap" ->
            {Node(t.k, t, s, 0) :
                s \in {x \in SeqsUpTo(Entries, MaxLen) : Sorted(EntryKeys(x))}}
      [] t.k = "Tuple" ->
            {Node(t.k, t, s, 0) :
                s \in {x \in [1..Len(t.a) -> UNION {V(i) : i \in 1..Len(t.a)}] :
                         \A i \in 1..Len(t.a) : x[i] \in V(i)}}

\* the node at a path of child indices
RECURSIVE NodeAt(_, _)
NodeAt(v, path) == IF path = <<>> THEN v ELSE NodeAt(v.c[Head(path)], Tail(path))

\* every path into v
RECURSIVE Paths(_)
Paths(v) ==
    {<<>>} \cup UNION {{<<i>> \o q : q \in Paths(v.c[i])} : i \in 1..Len(v.c)}

\* v with the node at path replaced by x
RECURSIVE ReplaceAt(_, _, _)
ReplaceAt(v, path, x) ==
    IF path = <<>> THEN x
    ELSE [v EXCEPT !.c[Head(path)] = ReplaceAt(v.c[Head(path)], Tail(path), x)]

\* Rc::clone / Arc::clone share the allocation: the handles to one allocation
\* see one and the same value
SharedOk(v) ==
    \A q1, q2 \in Paths(v) :
        LET x == NodeAt(v, q1)
            y == NodeAt(v, q2)
        IN (x.k \in {"Rc", "Arc"} /\ x.k = y.k /\ x.t = y.t /\ x.p = y.p) => x.c = y.c

-----------------------------------------------------------------------------
(* trace(&self, cc), one operator per impl.  A trace call is recorded as   *)
(* the event [path, cc]: the position of the value it is made on, and the  *)
(* collection capability it is given.  Each operator answers the events of *)
(* the calls the impl's body makes.                                        *)

Event(path, cc) == [path |-> path, cc |-> cc]

RECURSIVE Trace(_, _, _)

\* trait Collect: the provided trace(), used by every impl that does not
\* define its own
CollectDefaultTrace(v, cc, path) == <<>>

\* Gc<'gc, T>: the call itself hands the pointer to the collector
GcTrace(v, cc, path) == <<>>

\* for t in items { t.trace(cc) }, from the i-th on
RECURSIVE TraceFrom(_, _, _, _)
TraceFrom(items, i, cc, path) ==
    IF i > Len(items) THEN <<>>
    ELSE Trace(items[i], cc, path \o <<i>>) \o TraceFrom(items, i + 1, cc, path)

\* for (k, v) in entries { k.trace(cc); v.trace(cc); }, from the i-th on
RECURSIVE TraceEntriesFrom(_, _, _, _)
TraceEntriesFrom(entries, i, cc, path) ==
    IF i > Len(entries) THEN <<>>
    ELSE Trace(entries[i].c[1], cc, path \o <<i, 1>>)
            \o Trace(entries[i].c[2], cc, path \o <<i, 2>>)
            \o TraceEntriesFrom(entries, i + 1, cc, path)

\* static_collect!, unsafe_empty_collect!, &T, &mut T: no trace of their own
LeafTrace(v, cc, path) == CollectDefaultTrace(v, cc, path)

\* Box<T>: (**self).trace(cc)
BoxTrace(v, cc, path) == Trace(v.c[1], cc, path \o <<1>>)

\* Box<[T]>
BoxSliceTrace(v, cc, path) == TraceFrom(v.c, 1, cc, path)

\* Option<T>: if let Some(t) = self.as_ref() { t.trace(cc) }
OptionTrace(v, cc, path) ==
    IF v.k = "Some" THEN Trace(v.c[1], cc, path \o <<1>>) ELSE <<>>

\* Result<T, E>: match self { Ok(r) => r.trace(cc), Err(e) => e.trace(cc) }
ResultTrace(v, cc, path) ==
    CASE v.k = "Ok" -> Trace(v.c[1], cc, path \o <<1>>)
      [] v.k = "Err" -> Trace(v.c[1], cc, path \o <<1>>)

VecTraceSkipFirst(v, cc, path) == TraceFrom(v.c, 2, cc, path)
\* Vec<T>
VecTrace(v, cc, path) == TraceFrom(v.c, 1, cc, path)

\* HashMap<K, V, S>
HashMapTrace(v, cc, path) == TraceEntriesFrom(v.c, 1, cc, path)

\* HashSet<T, S>
HashSetTrace(v, cc, path) == TraceFrom(v.c, 1, cc, path)

\* BTreeMap<K, V>
BTreeMapTrace(v, cc, path) == TraceEntriesFrom(v.c, 1, cc, path)

\* BTreeSet<T>
BTreeSetTrace(v, cc, path) == TraceFrom(v.c, 1, cc, path)

RcTraceNothing(v, cc, path) == <<>>
\* Rc<T>: (**self).trace(cc)
RcTrace(v, cc, path) == Trace(v.c[1], cc, path \o <<1>>)

\* Arc<T>: (**self).trace(cc)
ArcTrace(v, cc, path) == Trace(v.c[1], cc, path \o <<1>>)

CellTraceDelegating(v, cc, path) == Trace(v.c[1], cc, path \o <<1>>)
\* Cell<T>: no trace of its own
CellTrace(v, cc, path) == CollectDefaultTrace(v, cc, path)

\* RefCell<T>: no trace of its own
RefCellTrace(v, cc, path) == CollectDefaultTrace(v, cc, path)

\* [T; $sz]
ArrayTrace(v, cc, path) == TraceFrom(v.c, 1, cc, path)

\* (A, B, ..): let (A, B, ..) = self; A.trace(cc); B.trace(cc); ..
TupleTrace(v, cc, path) == TraceFrom(v.c, 1, cc, path)

\* StaticCollect<T>: no trace of its own
StaticCollectTrace(v, cc, path) == CollectDefaultTrace(v, cc, path)

\* #[derive(Collect)] on a struct: every field is traced, in declaration order
DerivedTrace(v, cc, path) == TraceFrom(v.c, 1, cc, path)

\* v.trace(cc): the call, then what the impl of v's type does
Trace(v, cc, path) ==
    <<Event(path, cc)>> \o
    CASE v.t.k \in StaticLeaves \cup RefLeaves -> LeafTrace(v, cc, path)
      [] v.t.k = GcLeaf -> GcTrace(v, cc, path)
      [] v.t.k = "Box" -> BoxTrace(v, cc, path)
      [] v.t.k = "BoxSlice" -> BoxSliceTrace(v, cc, path)
      [] v.t.k = "Option" -> OptionTrace(v, cc, path)
      [] v.t.k = "Result" -> ResultTrace(v, cc, path)
      [] v.t.k = "Vec" -> VecTrace(v, cc, path)
      [] v.t.k = "HashMap" -> HashMapTrace(v, cc, path)
      [] v.t.k = "HashSet" -> HashSetTrace(v, cc, path)
      [] v.t.k = "BTreeMap" -> BTreeMapTrace(v, cc, path)
      [] v.t.k = "BTreeSet" -> BTreeSetTrace(v, cc, path)
      [] v.t.k = "Rc" -> RcTrace(v, cc, path)
      [] v.t.k = "Arc" -> ArcTrace(v, cc, path)
      [] v.t.k = "Cell" -> CellTrace(v, cc, path)
      [] v.t.k = "RefCell" -> RefCellTrace(v, cc, path)
      [] v.t.k = "Array" -> ArrayTrace(v, cc, path)
      [] v.t.k = "Tuple" -> TupleTrace(v, cc, path)
      [] v.t.k = "StaticCollect" -> StaticCollectTrace(v, cc, path)
      [] v.t.k \in {"SequenceFn", "SequenceFnWith"} -> DerivedTrace(v, cc, path)

-----------------------------------------------------------------------------
(* The values the variables of a specification hold while another          *)
(* specification runs.                                                     *)

UnitT == TTuple(<<>>)
UnitV == Node("Tuple", UnitT, <<>>, 0)
NoTrace == [done |-> FALSE, v |-> UnitV, cc |-> 0, prev |-> <<>>, n |-> 0]
NoSeq == [st |-> "unbuilt", obj |-> UnitV]
NoRet == [tag |-> "none", v |-> UnitV, mc |-> 0, msg |-> ""]

IdleTypes == ty = UnitT /\ nt = <<>>
IdleTrace == root = UnitV
IdleLog == log = <<>> /\ traced = NoTrace
IdleSeq == seq = NoSeq /\ ret = NoRet /\ calls = <<>> /\ outputs = <<>> /\ steps = 0
IdleStatic == lhs = UnitV /\ rhs = UnitV /\ cmp = <<>> /\ cloned = FALSE

-----------------------------------------------------------------------------
(* SpecTypes: the generic impls are instantiated around a leaf type, one   *)
(* constructor at a time, and needs_trace() is asked of the result.        *)

\* the other type argument of a two-parameter impl or of a tuple: one with
\* needs_trace() false, one with true
Others == {U32, GcT}
\* the key type of the maps instantiated: one with needs_trace() false, one with true
KeyOthers == {U32, T1("Box", U32)}
\* the array lengths instantiated, of 1 ..= ArrayMax
ArraySizes == {1, ArrayMax}

\* the leaf types the impls are instantiated around: static_collect! types
\* (an integer, a float, which is no key, and String), both references and Gc
InstLeaves == {"u32", "f64", "String", "Ref", "RefMut", GcLeaf}

InitTypes ==
    /\ ty \in {T0(k) : k \in InstLeaves}
    /\ nt = <<>>
    /\ IdleTrace /\ IdleLog /\ IdleSeq /\ IdleStatic

Inst(t) ==
    /\ Depth(ty) < MaxDepth
    /\ ty' = t
    /\ nt' = <<>>
    /\ UNCHANGED <<traceVars, logVars, seqVars, staticVars>>

InstBox == Inst(T1("Box", ty))
InstBoxSlice == Inst(T1("BoxSlice", ty))
InstOption == Inst(T1("Option", ty))
InstResult == \E o \in Others : Inst(T2("Result", ty, o))
InstVec == Inst(T1("Vec", ty))
InstHashMap == \E o \in KeyOthers : Inst(T2("HashMap", o, ty))
InstHashSet == IsKey(ty) /\ Inst(T1("HashSet", ty))
InstBTreeMap == \E o \in Others : IsKey(ty) /\ Inst(T2("BTreeMap", ty, o))
InstBTreeSet == IsKey(ty) /\ Inst(T1("BTreeSet", ty))
InstRc == Inst(T1("Rc", ty))
InstArc == Inst(T1("Arc", ty))
InstCell == IsStatic(ty) /\ Inst(T1("Cell", ty))
InstRefCell == IsStatic(ty) /\ Inst(T1("RefCell", ty))
InstArray == \E n \in ArraySizes : n \in 1..ArrayMax /\ Inst(TArray(ty, n))
InstTuple ==
    \E ar \in 0..MaxArity :
        /\ ar <= TupleMax
        /\ \/ ar = 0 /\ Inst(UnitT)
           \/ ar = 1 /\ Inst(TTuple(<<ty>>))
           \/ \E o \in Others :
                ar > 1 /\ Inst(TTuple([i \in 1..ar |-> IF i = ar THEN ty ELSE o]))
InstStaticCollect == IsStatic(ty) /\ Inst(T1("StaticCollect", ty))

\* <ty as Collect>::needs_trace()
AskNeedsTrace ==
    /\ nt = <<>>
    /\ nt' = <<NeedsTrace(ty)>>
    /\ UNCHANGED <<ty, traceVars, logVars, seqVars, staticVars>>

NextTypes ==
    \/ InstBox \/ InstBoxSlice \/ InstOption \/ InstResult \/ InstVec
    \/ InstHashMap \/ InstHashSet \/ InstBTreeMap \/ InstBTreeSet
    \/ InstRc \/ InstArc \/ InstCell \/ InstRefCell \/ InstArray \/ InstTuple
    \/ InstStaticCollect \/ AskNeedsTrace

SpecTypes == InitTypes /\ [][NextTypes]_vars

-----------------------------------------------------------------------------
(* SpecTrace: the collector holds a root value; between its trace calls    *)
(* the mutator writes through the cells the root contains.                 *)

\* element types: leaves and the wrappers of one value
ElemTypes ==
    {U32, GcT, T1("Option", GcT), T1("Box", GcT), T1("Rc", GcT),
     T1("StaticCollect", U32), TTuple(<<GcT, U32>>)}
\* cells: of a plain value, and of a value whose type answers needs_trace() true
CellTypes == {T1("Cell", U32), T1("Cell", T1("Box", U32)), T1("RefCell", U32)}
\* key types: one with needs_trace() false, one with true
KeyTypes == {U32, T1("Box", U32)}
\* the value types of the maps built
MapValTypes == {U32, GcT, T1("Option", GcT)}
\* containers, to be held by a tuple or a wrapper
NestedTypes ==
    {T1("Vec", GcT), T1("Vec", T1("Option", GcT)), T2("HashMap", U32, GcT),
     T1("BTreeSet", U32)}

RootTypes ==
    ElemTypes \cup CellTypes
    \cup {T1(k, e) : k \in {"Box", "BoxSlice", "Option", "Vec", "Rc", "Arc"},
                     e \in ElemTypes}
    \cup {TArray(e, n) : e \in ElemTypes, n \in 1..MaxLen}
    \cup {T2("Result", e, U32) : e \in ElemTypes}
    \cup {T2("Result", U32, e) : e \in ElemTypes}
    \cup {T1(k, e) : k \in {"HashSet", "BTreeSet"}, e \in KeyTypes}
    \cup {T2(k, e, f) : k \in {"HashMap", "BTreeMap"}, e \in KeyTypes, f \in MapValTypes}
    \cup {UnitT}
    \cup {TTuple(<<e>>) : e \in ElemTypes}
    \cup {TTuple(<<e, GcT>>) : e \in ElemTypes \cup CellTypes}
    \cup {TTuple(<<GcT, f>>) : f \in ElemTypes \cup NestedTypes}
    \cup {T1(k, e) : k \in {"Box", "Option", "Arc"}, e \in NestedTypes \cup CellTypes}
    \cup {T1("Vec", T1("Cell", U32)), T2("BTreeMap", U32, T1("RefCell", U32))}

InitTrace ==
    /\ root \in {v \in UNION {ValuesOf(t) : t \in RootTypes} : SharedOk(v)}
    /\ IdleTypes /\ IdleLog /\ IdleSeq /\ IdleStatic

\* the collector's mark pass calls root.trace(cc)
CollectorTrace ==
    \E cc \in 1..NumCtx :
        /\ log' = Trace(root, cc, <<>>)
        /\ traced' = [done |-> TRUE, v |-> root, cc |-> cc, prev |-> <<>>,
                      n |-> IF traced.done /\ traced.v # root THEN 1 ELSE 0]
        /\ UNCHANGED <<typeVars, traceVars, seqVars, staticVars>>

\* the mutator stores another value into the cell of kind k at path, through
\* a shared reference
Store(k, path) ==
    /\ NodeAt(root, path).k = k
    /\ \E x \in ValuesOf(NodeAt(root, path).t.a[1]) :
        /\ x # NodeAt(root, path).c[1]
        /\ root' = ReplaceAt(root, path \o <<1>>, x)
    /\ SharedOk(root')
    /\ UNCHANGED <<typeVars, logVars, seqVars, staticVars>>

\* Cell::set
CellSet == \E path \in Paths(root) : Store("Cell", path)

\* *RefCell::borrow_mut() = x
RefCellStore == \E path \in Paths(root) : Store("RefCell", path)

NextTrace == CollectorTrace \/ CellSet \/ RefCellStore

SpecTrace == InitTrace /\ [][NextTrace]_vars

-----------------------------------------------------------------------------
(* SpecSeq: one stepped computation is built by from_fn or from_fn_with,   *)
(* stepped by its owner, traced by the collector between steps, and        *)
(* dropped at some point, stepped or not.                                  *)

\* the step calls made on one instance
MaxSteps == 3

\* pub struct SequenceFn<F>(Option<StaticCollect<F>>)
SequenceFnT == T1("SequenceFn", ClosureT)
FnSlotT == T1("Option", T1("StaticCollect", ClosureT))

\* pub struct SequenceFnWith<C, F>(Option<(C, StaticCollect<F>)>)
SequenceFnWithT(ct) == T2("SequenceFnWith", ct, ClosureT)
FnWithSlotT(ct) == T1("Option", TTuple(<<ct, T1("StaticCollect", ClosureT)>>))

\* StaticCollect(f)
WrapClosure(f) ==
    Node("StaticCollect", T1("StaticCollect", ClosureT),
         <<Node("Closure", ClosureT, <<>>, ClosureCode(f))>>, 0)

U32V(n) == Node("u32", U32, <<>>, n)

\* the captured states handed to from_fn_with
Captured ==
    {U32V(n) : n \in {0, 1, 42}} \cup ValuesOf(GcT) \cup ValuesOf(T1("Vec", GcT))

\* F: FnOnce(MutationContext, C) -> R: double and succ take a u32, id takes any C
Accepts(f, c) == f = "id" \/ c.t = U32

\* f(mc): the closures of from_fn answer their own code
RunFn(f, mc) == U32V(ClosureCode(f))

\* f(mc, c)
RunFnWith(f, mc, c) ==
    CASE f = "double" -> U32V(2 * c.p)
      [] f = "succ" -> U32V(c.p + 1)
      [] f = "id" -> c

\* SequenceFn::new
SequenceFnNew(f) ==
    Node("SequenceFn", SequenceFnT, <<Node("Some", FnSlotT, <<WrapClosure(f)>>, 0)>>, 0)

\* SequenceFnWith::new
SequenceFnWithNew(c, f) ==
    Node("SequenceFnWith", SequenceFnWithT(c.t),
         <<Node("Some", FnWithSlotT(c.t),
                <<Node("Tuple", FnWithSlotT(c.t).a[1], <<c, WrapClosure(f)>>, 0)>>, 0)>>,
         0)

OptionTakeLeaves(o) == <<o, o>>
\* Option::take: what was stored, and the None left in its place
OptionTake(o) == <<o, Node("None", o.t, <<>>, 0)>>

\* Option::expect
OptionExpect(o, msg) ==
    IF o.k = "Some" THEN [ok |-> TRUE, v |-> o.c[1], msg |-> ""]
    ELSE [ok |-> FALSE, v |-> UnitV, msg |-> msg]

RetSome(v, mc) == [tag |-> "Some", v |-> v, mc |-> mc, msg |-> ""]
RetNone(mc) == [tag |-> "None", v |-> UnitV, mc |-> mc, msg |-> ""]
RetPanic(msg, mc) == [tag |-> "panic", v |-> UnitV, mc |-> mc, msg |-> msg]

SequenceFnStepOtherMc(obj, mc) ==
    LET t == OptionTake(obj.c[1])
        e == OptionExpect(t[1], "cannot step a finished sequence")
        f == CodeClosure(e.v.c[1].p)
        m == (mc % NumCtx) + 1
    IN  IF e.ok
        THEN [obj |-> [obj EXCEPT !.c[1] = t[2]],
              ret |-> RetSome(RunFn(f, m), mc),
              invoked |-> <<[f |-> f, mc |-> m, c |-> <<>>]>>]
        ELSE [obj |-> [obj EXCEPT !.c[1] = t[2]], ret |-> RetPanic(e.msg, mc),
              invoked |-> <<>>]
SequenceFnStepSilent(obj, mc) ==
    LET t == OptionTake(obj.c[1])
        f == CodeClosure(t[1].c[1].c[1].p)
    IN  IF t[1].k = "Some"
        THEN [obj |-> [obj EXCEPT !.c[1] = t[2]],
              ret |-> RetSome(RunFn(f, mc), mc),
              invoked |-> <<[f |-> f, mc |-> mc, c |-> <<>>]>>]
        ELSE [obj |-> [obj EXCEPT !.c[1] = t[2]], ret |-> RetNone(mc), invoked |-> <<>>]
\* SequenceFn::step:
\*   Some(self.0.take().expect("cannot step a finished sequence").0(mc))
SequenceFnStep(obj, mc) ==
    LET t == OptionTake(obj.c[1])
        e == OptionExpect(t[1], "cannot step a finished sequence")
        f == CodeClosure(e.v.c[1].p)
    IN  IF e.ok
        THEN [obj |-> [obj EXCEPT !.c[1] = t[2]],
              ret |-> RetSome(RunFn(f, mc), mc),
              invoked |-> <<[f |-> f, mc |-> mc, c |-> <<>>]>>]
        ELSE [obj |-> [obj EXCEPT !.c[1] = t[2]], ret |-> RetPanic(e.msg, mc),
              invoked |-> <<>>]

SequenceFnWithStepPeek(obj, mc) ==
    LET e == OptionExpect(obj.c[1], "cannot step a finished sequence")
        c == e.v.c[1]
        f == CodeClosure(e.v.c[2].c[1].p)
    IN  IF e.ok
        THEN [obj |-> obj,
              ret |-> RetSome(RunFnWith(f, mc, c), mc),
              invoked |-> <<[f |-> f, mc |-> mc, c |-> <<c>>]>>]
        ELSE [obj |-> obj, ret |-> RetPanic(e.msg, mc), invoked |-> <<>>]
\* SequenceFnWith::step:
\*   let (c, StaticCollect(f)) = self.0.take().expect("cannot step a finished sequence");
\*   Some(f(mc, c))
SequenceFnWithStep(obj, mc) ==
    LET t == OptionTake(obj.c[1])
        e == OptionExpect(t[1], "cannot step a finished sequence")
        c == e.v.c[1]
        f == CodeClosure(e.v.c[2].c[1].p)
    IN  IF e.ok
        THEN [obj |-> [obj EXCEPT !.c[1] = t[2]],
              ret |-> RetSome(RunFnWith(f, mc, c), mc),
              invoked |-> <<[f |-> f, mc |-> mc, c |-> <<c>>]>>]
        ELSE [obj |-> [obj EXCEPT !.c[1] = t[2]], ret |-> RetPanic(e.msg, mc),
              invoked |-> <<>>]

InitSeq ==
    /\ seq = NoSeq /\ ret = NoRet /\ calls = <<>> /\ outputs = <<>> /\ steps = 0
    /\ IdleTypes /\ IdleTrace /\ IdleLog /\ IdleStatic

\* from_fn(f)
FromFn ==
    \E f \in Closures :
        /\ seq.st = "unbuilt"
        /\ seq' = [st |-> "live", obj |-> SequenceFnNew(f)]
        /\ UNCHANGED <<ret, calls, outputs, steps, typeVars, traceVars, logVars, staticVars>>

\* from_fn_with(c, f)
FromFnWith ==
    \E c \in Captured, f \in Closures :
        /\ seq.st = "unbuilt"
        /\ Accepts(f, c)
        /\ seq' = [st |-> "live", obj |-> SequenceFnWithNew(c, f)]
        /\ UNCHANGED <<ret, calls, outputs, steps, typeVars, traceVars, logVars, staticVars>>

\* what a step call answers and leaves behind
Stepped(r) ==
    /\ seq' = [seq EXCEPT !.obj = r.obj]
    /\ ret' = r.ret
    /\ calls' = calls \o r.invoked
    /\ outputs' = IF r.ret.tag = "Some" THEN Append(outputs, r.ret.v) ELSE outputs
    /\ steps' = steps + 1
    /\ UNCHANGED <<typeVars, traceVars, logVars, staticVars>>

\* the owner calls step(mc) on a SequenceFn
StepFn ==
    \E mc \in 1..NumCtx :
        /\ seq.st = "live" /\ seq.obj.k = "SequenceFn"
        /\ steps < MaxSteps
        /\ Stepped(SequenceFnStep(seq.obj, mc))

\* the owner calls step(mc) on a SequenceFnWith
StepFnWith ==
    \E mc \in 1..NumCtx :
        /\ seq.st = "live" /\ seq.obj.k = "SequenceFnWith"
        /\ steps < MaxSteps
        /\ Stepped(SequenceFnWithStep(seq.obj, mc))

\* the collector's mark pass, between two steps, calls trace(cc) on the instance
CollectorTraceSeq ==
    \E cc \in 1..NumCtx :
        /\ seq.st = "live"
        /\ log' = Trace(seq.obj, cc, <<>>)
        /\ traced' = [done |-> TRUE, v |-> seq.obj, cc |-> cc,
                      prev |-> IF traced.done THEN <<traced.v>> ELSE <<>>,
                      n |-> steps]
        /\ UNCHANGED <<seqVars, typeVars, traceVars, staticVars>>

\* the owner drops the instance, stepped or not
Abandon ==
    /\ seq.st = "live"
    /\ seq' = [seq EXCEPT !.st = "dropped"]
    /\ UNCHANGED <<ret, calls, outputs, steps, typeVars, traceVars, logVars, staticVars>>

NextSeq == FromFn \/ FromFnWith \/ StepFn \/ StepFnWith \/ CollectorTraceSeq \/ Abandon

SpecSeq == InitSeq /\ [][NextSeq]_vars

-----------------------------------------------------------------------------
(* SpecStatic: two StaticCollect-wrapped values of one plain type are      *)
(* compared and cloned, and needs_trace() is asked of their type.          *)

\* f32 and f64 hold a NaN: the payload 0
IsNaN(a) == a.t.k \in {"f32", "f64"} /\ a.p = 0

\* T::eq of a plain T: a NaN equals nothing
PlainEq(a, b) == a.p = b.p /\ ~IsNaN(a) /\ ~IsNaN(b)

\* T::clone of a plain T
PlainClone(a) == Node(a.k, a.t, a.c, a.p)

\* StaticCollect::clone: StaticCollect(self.0.clone())
StaticCollectClone(x) == Node("StaticCollect", x.t, <<PlainClone(x.c[1])>>, 0)

StaticCollectEqIdentical(x, y) == x = y
\* StaticCollect::eq: self.0.eq(&other.0)
StaticCollectEq(x, y) == PlainEq(x.c[1], y.c[1])

InitStatic ==
    /\ \E k \in StaticLeaves :
        /\ ty = T1("StaticCollect", T0(k))
        /\ lhs \in ValuesOf(ty)
        /\ rhs \in ValuesOf(ty)
    /\ nt = <<>> /\ cmp = <<>> /\ cloned = FALSE
    /\ IdleTrace /\ IdleLog /\ IdleSeq

\* rhs = lhs.clone()
StaticClone ==
    /\ rhs' = StaticCollectClone(lhs)
    /\ cloned' = TRUE
    /\ cmp' = <<>>
    /\ UNCHANGED <<lhs, typeVars, traceVars, logVars, seqVars>>

\* lhs == rhs
StaticCompare ==
    /\ cmp' = <<StaticCollectEq(lhs, rhs)>>
    /\ UNCHANGED <<lhs, rhs, cloned, typeVars, traceVars, logVars, seqVars>>

\* <StaticCollect<T> as Collect>::needs_trace()
StaticAskNeedsTrace ==
    /\ nt' = <<NeedsTrace(ty)>>
    /\ UNCHANGED <<ty, staticVars, traceVars, logVars, seqVars>>

NextStatic == StaticClone \/ StaticCompare \/ StaticAskNeedsTrace

SpecStatic == InitStatic /\ [][NextStatic]_vars

-----------------------------------------------------------------------------
(* Properties of needs_trace(), checked under SpecTypes.                   *)

Composites ==
    {"Option", "Result", "Vec", "BoxSlice", "Array", "HashSet", "BTreeSet",
     "HashMap", "BTreeMap", "Tuple"}

AnyPartNeedsTrace(t) == \E i \in 1..Len(t.a) : NeedsTrace(t.a[i])

\* C4: for Option, Result, Vec, Box<[T]>, arrays, sets, maps and tuples,
\* needs_trace() answers true exactly when the needs_trace() of at least one
\* element, key, value, alternative or component type is true; the empty
\* tuple, which has no part, answers false.
C4_CompositeNeedsTraceIffPart ==
    (ty.k \in Composites /\ nt # <<>>) => (nt[1] <=> AnyPartNeedsTrace(ty))

\* a sequence of optional managed references was asked and answered true
C4_Witness ==
    /\ ty = T1("Vec", T1("Option", GcT))
    /\ nt = <<TRUE>>

-----------------------------------------------------------------------------
(* Properties of trace(), checked under SpecTrace.                         *)

Opaque == {"Cell", "RefCell", "StaticCollect"}

IsPrefix(p, q) == Len(p) <= Len(q) /\ SubSeq(q, 1, Len(p)) = p

\* p comes before q when a value is walked parent first, children by index
PathLt(p, q) ==
    \/ IsPrefix(p, q) /\ p # q
    \/ \E n \in 1..Len(p) :
        /\ n <= Len(q)
        /\ SubSeq(p, 1, n - 1) = SubSeq(q, 1, n - 1)
        /\ p[n] < q[n]

\* the positions of the values v owns, down to (and not into) a cell or a
\* StaticCollect; a map entry is the position of no value, its key and its
\* value are
RECURSIVE Owned(_)
RECURSIVE Below(_)
Owned(v) == {<<>>} \cup Below(v)
Below(v) ==
    IF v.k \in Opaque THEN {}
    ELSE UNION {{<<i>> \o q : q \in IF v.c[i].k = "Entry" THEN Below(v.c[i])
                                                        ELSE Owned(v.c[i])} :
                i \in 1..Len(v.c)}

LogPaths == {log[i].path : i \in 1..Len(log)}

\* C6: one trace of a value makes exactly one trace call on each value it
\* owns (every element, every component, key and value of every entry, the
\* alternative that is present), parents before children and children in
\* the container's order, each with the capability the outer call received.
C6_TraceVisitsEachOwnedOnce ==
    traced.done =>
        /\ LogPaths = Owned(traced.v)
        /\ \A i, j \in 1..Len(log) : i < j => PathLt(log[i].path, log[j].path)
        /\ \A i \in 1..Len(log) : log[i].cc = traced.cc

\* a map of two entries was traced: five calls, the map's and each key's and value's
C6_Witness ==
    /\ traced.done
    /\ traced.v.t = T2("HashMap", T1("Box", U32), T1("Option", GcT))
    /\ Len(traced.v.c) = 2
    /\ \E i \in 1..Len(log) : log[i].path = <<2, 2, 1>>

CellsOf(v) == {q \in Paths(v) : NodeAt(v, q).k \in {"Cell", "RefCell"}}

\* C7: Cell<T> and RefCell<T> answer needs_trace() false whatever T answers,
\* and a trace makes no call on anything behind a cell, whatever the cell
\* holds and whatever was stored into it since the trace before.
C7_CellsAreOpaque ==
    /\ \A q \in CellsOf(root) : ~NeedsTrace(NodeAt(root, q).t)
    /\ traced.done =>
        \A i \in 1..Len(log) : \A q \in CellsOf(traced.v) :
            ~(IsPrefix(q, log[i].path) /\ q # log[i].path)

\* an aggregate holding a cell whose contents answer needs_trace() true was
\* traced, written to, and traced again
C7_Witness ==
    /\ traced.done
    /\ traced.n = 1
    /\ \E q \in CellsOf(traced.v) :
        /\ q # <<>>
        /\ NeedsTrace(NodeAt(traced.v, q).t.a[1])
        /\ q \in LogPaths

\* the handles of v to the allocation of the handle h
HandlesTo(v, h) ==
    {q \in Owned(v) :
        LET x == NodeAt(v, q) IN x.k = h.k /\ x.t = h.t /\ x.p = h.p}

\* C9: a trace call on an Rc or Arc handle forwards to the shared value once,
\* and nothing deduplicates: a traced aggregate holding k handles to one
\* allocation makes k trace calls on the shared value.
C9_SharedValueVisitedPerHandle ==
    traced.done =>
        \A q \in Owned(traced.v) :
            LET h == NodeAt(traced.v, q) IN
            h.k \in {"Rc", "Arc"} =>
                Cardinality({i \in 1..Len(log) :
                                /\ log[i].path # <<>>
                                /\ SubSeq(log[i].path, 1, Len(log[i].path) - 1)
                                     \in HandlesTo(traced.v, h)})
                    = Cardinality(HandlesTo(traced.v, h))

\* a Vec of two handles to one allocation was traced: two calls on the shared value
C9_Witness ==
    /\ traced.done
    /\ traced.v.t = T1("Vec", T1("Rc", GcT))
    /\ Len(traced.v.c) = 2
    /\ traced.v.c[1] = traced.v.c[2]
    /\ {<<1, 1>>, <<2, 1>>} \subseteq LogPaths

-----------------------------------------------------------------------------
(* Properties of the stepped computations, checked under SpecSeq.          *)

Pending(s) == s.st = "live" /\ s.obj.c[1].k = "Some"
Exhausted(s) == s.st = "live" /\ s.obj.c[1].k = "None"
StepCall == steps' = steps + 1

\* the action a pending instance holds, and the state captured with it
HeldF(obj) ==
    IF obj.k = "SequenceFn" THEN CodeClosure(obj.c[1].c[1].c[1].p)
    ELSE CodeClosure(obj.c[1].c[1].c[2].c[1].p)
HeldC(obj) == IF obj.k = "SequenceFn" THEN <<>> ELSE <<obj.c[1].c[1].c[1]>>

\* C1: a step call on a pending instance invokes the held action once, with
\* the mutation capability the call was given and the state captured at
\* construction, answers Some of the action's result, and leaves the
\* instance exhausted.
C1_StepOnPending ==
    [][(Pending(seq) /\ StepCall) =>
        LET f == HeldF(seq.obj)
            cap == HeldC(seq.obj)
            mc == ret'.mc
            out == IF cap = <<>> THEN RunFn(f, mc) ELSE RunFnWith(f, mc, cap[1])
        IN  /\ calls' = Append(calls, [f |-> f, mc |-> mc, c |-> cap])
            /\ ret' = RetSome(out, mc)
            /\ outputs' = Append(outputs, out)
            /\ Exhausted(seq')]_vars

\* captured state 42 with the doubling action: the first step answered Some(84)
C1_Witness ==
    /\ steps = 1
    /\ ret.tag = "Some" /\ ret.v = U32V(84)
    /\ calls = <<[f |-> "double", mc |-> ret.mc, c |-> <<U32V(42)>>]>>
    /\ Exhausted(seq)

\* C2: a step call on an exhausted instance panics with "cannot step a
\* finished sequence": it answers no value, invokes no action, and leaves
\* the instance exhausted.
C2_StepOnExhaustedPanics ==
    [][(Exhausted(seq) /\ StepCall) =>
        /\ ret'.tag = "panic"
        /\ ret'.msg = "cannot step a finished sequence"
        /\ calls' = calls
        /\ outputs' = outputs
        /\ Exhausted(seq')]_vars

\* a SequenceFn was stepped a second time
C2_Witness ==
    /\ ret.tag = "panic"
    /\ seq.obj.k = "SequenceFn"
    /\ Exhausted(seq)
    /\ steps = 2 /\ Len(outputs) = 1

\* C3: an instance starts pending; it only ever goes from pending to
\* exhausted, and stays exhausted; its action is invoked at most once (not
\* at all when it is never stepped), and at most one output is produced.
C3_OneShot ==
    /\ [](/\ Len(calls) <= 1
          /\ Len(outputs) <= 1
          /\ (steps = 0 => calls = <<>> /\ outputs = <<>>))
    /\ [][/\ (seq.st = "unbuilt" /\ seq'.st = "live") => Pending(seq')
          /\ Exhausted(seq) => ~Pending(seq')
          /\ (Pending(seq) /\ Exhausted(seq')) => StepCall
          /\ (Pending(seq) /\ seq'.st = "live") => seq'.obj.k = seq.obj.k]_vars

\* an instance was stepped three times: one invocation, one output
C3_Witness ==
    /\ steps >= 3
    /\ Len(calls) = 1 /\ Len(outputs) = 1
    /\ seq.obj.k = "SequenceFnWith"
    /\ Exhausted(seq)

\* C10: a trace of a pending SequenceFnWith makes its calls on the instance,
\* its slot, the stored pair, the StaticCollect wrapper and every value the
\* captured state owns, and none on the action; a trace of a pending
\* SequenceFn stops at the StaticCollect wrapper; a trace of an instance
\* that has been stepped stops at its empty slot.
C10_TraceSeesWhatIsHeld ==
    traced.done =>
        /\ \A i \in 1..Len(log) : log[i].cc = traced.cc
        /\ traced.n >= 1 => LogPaths = {<<>>, <<1>>}
        /\ (traced.n = 0 /\ traced.v.k = "SequenceFn") =>
                LogPaths = {<<>>, <<1>>, <<1, 1>>}
        /\ (traced.n = 0 /\ traced.v.k = "SequenceFnWith") =>
                LogPaths = {<<>>, <<1>>, <<1, 1>>, <<1, 1, 2>>}
                    \cup {<<1, 1, 1>> \o q : q \in Owned(HeldC(traced.v)[1])}

\* an instance capturing two managed references was traced, stepped and traced again
C10_Witness ==
    /\ traced.done
    /\ traced.n = 1
    /\ traced.prev # <<>>
    /\ traced.prev[1].k = "SequenceFnWith"
    /\ traced.prev[1].c[1].k = "Some"
    /\ Len(HeldC(traced.prev[1])[1].c) = 2
    /\ Len(log) = 2

-----------------------------------------------------------------------------
(* Properties of StaticCollect, checked under SpecStatic.                  *)

\* C8: StaticCollect<T> answers needs_trace() false; two wrapped values are
\* equal exactly when the values they wrap are; a clone wraps the clone of
\* the wrapped value, and so equals the original whenever that clone does.
C8_StaticCollectDelegates ==
    /\ nt # <<>> => nt[1] = FALSE
    /\ cmp # <<>> => (cmp[1] <=> PlainEq(lhs.c[1], rhs.c[1]))
    /\ cloned =>
        /\ rhs.k = "StaticCollect" /\ rhs.t = lhs.t
        /\ rhs.c = <<PlainClone(lhs.c[1])>>
        /\ cmp # <<>> => (cmp[1] <=> PlainEq(PlainClone(lhs.c[1]), lhs.c[1]))

\* a wrapped u32 was cloned, compared equal to its clone, and asked
C8_Witness ==
    /\ ty = T1("StaticCollect", U32)
    /\ cloned
    /\ cmp = <<TRUE>>
    /\ nt = <<FALSE>>

=============================================================================
